---- MODULE Spec2Model ----
(***************************************************************************)
(* Model of the TMP006 driver (Adafruit_TMP/TMP006.py).                    *)
(*                                                                         *)
(* The device is a bank of 16-bit registers that it sends and receives     *)
(* most-significant byte first.  The driver talks to it through the I2C    *)
(* transport's write16 (low byte first on the wire), readU16BE and         *)
(* readS16BE.  Every driver method is one action; bytes on the wire are    *)
(* modelled explicitly, so byte order is something the checks can refute.  *)
(* The device keeps the two bytes it is sent as they are.  readObjTempC is *)
(* double-precision arithmetic on the two raw reads and is not modelled;   *)
(* the raw reads and readDieTempC (an exact fraction) are.                 *)
(***************************************************************************)
EXTENDS Integers, Sequences, FiniteSets

VARIABLES
    config,   \* device CONFIG register, as the 16-bit word the device holds
    manid,    \* device MANID register
    devid,    \* device DEVID register
    vobj,     \* device VOBJ register (16 bits, two's complement)
    tamb,     \* device TAMB register (16 bits, two's complement)
    op,       \* name of the last driver method called ("none" at start)
    args,     \* its argument list: <<samplerate>> for begin, <<>> otherwise
    result,   \* "True"/"False" (begin), "ValueError", "None", "value"
    value,    \* numeric return value: <<n>> integer, <<num, den>> float num/den
    busLog,   \* bus transactions issued by the last call, in order
    written,  \* <<w>>: config word the last call computed for CONFIG, else <<>>
    pre,      \* history: CONFIG held by the device before the last call
    prevOp,   \* history: the call before the last one
    prevPre,  \* history: CONFIG held by the device before that call
    power     \* history: power state by the calls made so far

vars == <<config, manid, devid, vobj, tamb, op, args, result, value, busLog,
          written, pre, prevOp, prevPre, power>>

----------------------------------------------------------------------------
(* Program constants (decimal; the source writes them in hexadecimal).      *)

TMP006_CONFIG == 2
TMP006_MANID == 254
TMP006_DEVID == 255
TMP006_VOBJ == 0
TMP006_TAMB == 1

TMP006_CFG_RESET == 32768
TMP006_CFG_MODEON == 28672
CFG_1SAMPLE == 0
CFG_2SAMPLE == 512
CFG_4SAMPLE == 1024
CFG_8SAMPLE == 1536
CFG_16SAMPLE == 2048
TMP006_CFG_DRDYEN == 256
TMP006_CFG_DRDY == 128

ExpectedManId == 21577
ExpectedDevId == 103

\* 2^16: the registers are 16 bits wide.
Word == 65536

----------------------------------------------------------------------------
(* Bounds of the model.                                                     *)

\* begin is tried with every integer -1 .. MaxSampleArg and the CFG_* values.
MaxSampleArg == 3

----------------------------------------------------------------------------
(* Python's integer operators on non-negative operands.                     *)

RECURSIVE BitAnd(_, _)
BitAnd(a, b) ==
    IF a = 0 \/ b = 0 THEN 0
    ELSE (a % 2) * (b % 2) + 2 * BitAnd(a \div 2, b \div 2)

RECURSIVE BitOr(_, _)
BitOr(a, b) ==
    IF a = 0 THEN b
    ELSE IF b = 0 THEN a
    ELSE (IF a % 2 = 1 \/ b % 2 = 1 THEN 1 ELSE 0) + 2 * BitOr(a \div 2, b \div 2)

\* x & ~m for x >= 0: ~m has every bit set but those of m.
BitAndNot(x, m) == x - BitAnd(x, m)

\* x >> 1 on a Python int: one step of the two's complement shift.
Half(x) == (x - (x % 2)) \div 2

RECURSIVE ShiftRight(_, _)
ShiftRight(x, n) == IF n = 0 THEN x ELSE ShiftRight(Half(x), n - 1)

----------------------------------------------------------------------------
(* The transport and the device's side of the bus.                          *)

\* The device puts a register on the wire most-significant byte first ...
DeviceSend(word) == <<word \div 256, word % 256>>
\* ... and stores the two bytes it receives the same way.
DeviceStore(wire) == wire[1] * 256 + wire[2]

\* write16: the 16-bit value goes out low byte first.
write16(v) == <<v % 256, (v \div 256) % 256>>

\* readU16BE: an SMBus word read (first byte is the low byte), then the two
\* bytes exchanged because big endian was asked for.
readU16BE(word) ==
    LET wire == DeviceSend(word)
        le   == wire[1] + 256 * wire[2]
    IN  BitAnd(le * 256, 65280) + le \div 256

\* readS16BE: readU16BE read as a two's complement number.
readS16BE(word) ==
    LET u == readU16BE(word)
    IN  IF u > 32767 THEN u - Word ELSE u

----------------------------------------------------------------------------
(* begin's pieces.                                                          *)

SampleRates == {CFG_1SAMPLE, CFG_2SAMPLE, CFG_4SAMPLE, CFG_8SAMPLE, CFG_16SAMPLE}

ValidSamplerate_Counts(samplerate) == samplerate \in {1, 2, 4, 8, 16}
ValidSamplerate(samplerate) == samplerate \in SampleRates

ConfigWord(samplerate) ==
    BitOr(BitOr(TMP006_CFG_MODEON, TMP006_CFG_DRDYEN), samplerate)

FlipBytes_None(c) == c
FlipBytes(c) == BitOr(BitAnd(c, 255) * 256, c \div 256)

IdMatch_Either(mid, did) == mid = ExpectedManId \/ did = ExpectedDevId
IdMatch(mid, did) == mid = ExpectedManId /\ did = ExpectedDevId

----------------------------------------------------------------------------
(* The temperature reads' pieces.                                           *)

RawDieTemperature_Truncating(word) ==
    LET raw == readS16BE(word)
    IN  IF raw < 0 THEN -((-raw) \div 4) ELSE raw \div 4
RawDieTemperature(word) == ShiftRight(readS16BE(word), 2)

\* Tdie * 0.03125, the literal kept as the decimal fraction 3125/100000.
DieTempC(word) == <<RawDieTemperature(word) * 3125, 100000>>

----------------------------------------------------------------------------
(* Inputs.                                                                  *)

\* Integers begin is called with.
SampleArgs == (-1 .. MaxSampleArg) \cup {8, 16, 32} \cup SampleRates

\* CONFIG words the device may hold when the driver is constructed.
InitConfigs ==
    { md + sr + en + dr :
        md \in {0, TMP006_CFG_MODEON},
        sr \in {CFG_1SAMPLE, CFG_16SAMPLE},
        en \in {0, TMP006_CFG_DRDYEN}, dr \in {0, TMP006_CFG_DRDY} }

\* Values the identity registers may hold.
IdValues == {ExpectedManId, ExpectedDevId, 18772}

\* VOBJ words used while TAMB ranges over every 16-bit word.
VobjSamples == {1000, 65535}

----------------------------------------------------------------------------
(* Initial states.                                                          *)

NoCall ==
    /\ op = "none" /\ args = <<>> /\ result = "None" /\ value = <<>>
    /\ busLog = <<>> /\ written = <<>>
    /\ prevOp = "none" /\ power = "Uninitialized"

\* Either the addressed device is a TMP006 holding any of InitConfigs, or it
\* is any device, holding a cleared CONFIG.
Init ==
    /\ config \in InitConfigs
    /\ manid \in IdValues
    /\ devid \in IdValues
    /\ \/ manid = ExpectedManId /\ devid = ExpectedDevId
       \/ config = 0
    /\ vobj = 0
    /\ tamb = 0
    /\ pre = config
    /\ prevPre = config
    /\ NoCall

InitTemp ==
    /\ config = 29696
    /\ manid = ExpectedManId
    /\ devid = ExpectedDevId
    /\ vobj \in VobjSamples
    /\ tamb \in 0 .. (Word - 1)
    /\ pre = config
    /\ prevPre = config
    /\ NoCall

----------------------------------------------------------------------------
(* The driver's methods.                                                    *)

History == pre' = config /\ prevOp' = op /\ prevPre' = pre

begin ==
    \E samplerate \in SampleArgs :
        /\ op' = "begin"
        /\ args' = <<samplerate>>
        /\ History
        /\ value' = <<>>
        /\ IF ~ValidSamplerate(samplerate)
           THEN /\ result' = "ValueError"
                /\ busLog' = <<>>
                /\ written' = <<>>
                /\ UNCHANGED <<config, power>>
           ELSE LET cfg  == ConfigWord(samplerate)
                    wire == write16(FlipBytes(cfg))
                    mid  == readU16BE(manid)
                    did  == readU16BE(devid)
                IN  /\ config' = DeviceStore(wire)
                    /\ written' = <<cfg>>
                    /\ busLog' = << <<"w", TMP006_CONFIG, wire[1], wire[2]>>,
                                    <<"r", TMP006_MANID>>,
                                    <<"r", TMP006_DEVID>> >>
                    /\ result' = IF IdMatch(mid, did) THEN "True" ELSE "False"
                    /\ power' = "Active"
        /\ UNCHANGED <<manid, devid, vobj, tamb>>

sleep ==
    LET control == BitAndNot(readU16BE(config), TMP006_CFG_MODEON)
        wire    == write16(control)
    IN  /\ op' = "sleep"
        /\ args' = <<>>
        /\ History
        /\ value' = <<>>
        /\ result' = "None"
        /\ config' = DeviceStore(wire)
        /\ written' = <<control>>
        /\ busLog' = << <<"r", TMP006_CONFIG>>,
                        <<"w", TMP006_CONFIG, wire[1], wire[2]>> >>
        /\ power' = IF power = "Uninitialized" THEN power ELSE "Sleeping"
        /\ UNCHANGED <<manid, devid, vobj, tamb>>

wake ==
    LET control == BitOr(readU16BE(config), TMP006_CFG_MODEON)
        wire    == write16(control)
    IN  /\ op' = "wake"
        /\ args' = <<>>
        /\ History
        /\ value' = <<>>
        /\ result' = "None"
        /\ config' = DeviceStore(wire)
        /\ written' = <<control>>
        /\ busLog' = << <<"r", TMP006_CONFIG>>,
                        <<"w", TMP006_CONFIG, wire[1], wire[2]>> >>
        /\ power' = IF power = "Uninitialized" THEN power ELSE "Active"
        /\ UNCHANGED <<manid, devid, vobj, tamb>>

Read(name, v, log) ==
    /\ op' = name
    /\ args' = <<>>
    /\ result' = "value"
    /\ value' = v
    /\ busLog' = log
    /\ written' = <<>>
    /\ UNCHANGED <<config, manid, devid, vobj, tamb, power, pre, prevOp, prevPre>>

readRawVoltage ==
    Read("readRawVoltage", <<readS16BE(vobj)>>, << <<"r", TMP006_VOBJ>> >>)

readRawDieTemperature ==
    Read("readRawDieTemperature", <<RawDieTemperature(tamb)>>,
         << <<"r", TMP006_TAMB>> >>)

readDieTempC ==
    Read("readDieTempC", DieTempC(tamb), << <<"r", TMP006_TAMB>> >>)

----------------------------------------------------------------------------
(* Specifications.                                                          *)

\* Configuration and power: any CONFIG and identity registers, any calls of
\* begin, sleep and wake.
Next == begin \/ sleep \/ wake

Spec == Init /\ [][Next]_vars

\* Temperature reads: every 16-bit TAMB word.
NextTemp == readRawVoltage \/ readRawDieTemperature \/ readDieTempC

SpecTemp == InitTemp /\ [][NextTemp]_vars

----------------------------------------------------------------------------
(* Properties.                                                              *)

\* The fields of a CONFIG word.
\* Bits 9-11, the sample-rate field: every bit a CFG_*SAMPLE value uses.
RateField ==
    BitOr(BitOr(CFG_2SAMPLE, CFG_4SAMPLE), BitOr(CFG_8SAMPLE, CFG_16SAMPLE))

ModeBits(c) == BitAnd(c, TMP006_CFG_MODEON)
RateBits(c) == BitAnd(c, RateField)
EnableBit(c) == BitAnd(c, TMP006_CFG_DRDYEN)
ReadyBit(c) == BitAnd(c, TMP006_CFG_DRDY)
ResetBit(c) == BitAnd(c, TMP006_CFG_RESET)

\* The sample-rate table: samples per conversion -> bits 9-11 of CONFIG.
RateMask(n) ==
    CASE n = 1 -> 0 [] n = 2 -> 512 [] n = 4 -> 1024 [] n = 8 -> 1536
      [] n = 16 -> 2048

SampleCounts == {1, 2, 4, 8, 16}

Returned == result \in {"True", "False"}

\* What C1 asks of the device after begin for n samples per conversion.
ConfiguredFor(n) ==
    /\ Returned
    /\ RateBits(config) = RateMask(n)
    /\ ModeBits(config) = TMP006_CFG_MODEON
    /\ EnableBit(config) = TMP006_CFG_DRDYEN

\* C1 as stated: begin called with the sample count n in {1,2,4,8,16} returns
\* and leaves CONFIG with n's rate bits, the mode-on bits and data-ready-enable.
C1_Original ==
    \A n \in SampleCounts : (op = "begin" /\ args = <<n>>) => ConfiguredFor(n)

\* C1 amended: begin called with the table value of n (CFG_1SAMPLE = 0x0000 ..
\* CFG_16SAMPLE = 0x0800) returns and leaves CONFIG with n's rate bits, the
\* mode-on bits and data-ready-enable; write16 sent the low byte of the flipped
\* word first, which is the high byte of the word the device then holds.
C1_Amended ==
    \A n \in SampleCounts :
        (op = "begin" /\ args = <<RateMask(n)>>) =>
            /\ ConfiguredFor(n)
            /\ busLog[1] = <<"w", TMP006_CONFIG, config \div 256, config % 256>>

C1_Witness ==
    /\ op = "begin" /\ args = <<2048>> /\ result = "True"
    /\ pre # 30976 /\ config = 30976

\* C2 as stated: begin with an integer outside {1,2,4,8,16} raises ValueError
\* and has issued no bus transaction.
C2_Original ==
    (op = "begin" /\ args[1] \notin SampleCounts) =>
        (result = "ValueError" /\ busLog = <<>>)

\* C2 amended: begin with an integer outside the table values {0x0000, 0x0200,
\* 0x0400, 0x0600, 0x0800} raises ValueError, has issued no bus transaction and
\* leaves CONFIG as it was.
C2_Amended ==
    (op = "begin" /\ args[1] \notin {0, 512, 1024, 1536, 2048}) =>
        (result = "ValueError" /\ busLog = <<>> /\ config = pre)

C2_Witness ==
    op = "begin" /\ args = <<3>> /\ result = "ValueError" /\ busLog = <<>>

\* C3: a begin call that accepted its sample rate returns True exactly when
\* the device's MANID is 0x5449 and its DEVID is 0x0067, and False otherwise.
C3_IdentityCheck ==
    (op = "begin" /\ args[1] \in {0, 512, 1024, 1536, 2048}) =>
        /\ Returned
        /\ result = "True" <=> (manid = 21577 /\ devid = 103)

C3_Witness ==
    /\ op = "begin" /\ result = "False"
    /\ manid = 21577 /\ devid = 18772
    /\ Len(busLog) = 3

\* C4: after calls that start with a successful begin, the mode-on bits of
\* CONFIG are set while the driver is Active and clear while it is Sleeping.
C4_ModeReflectsPower ==
    /\ power = "Active" => ModeBits(config) = TMP006_CFG_MODEON
    /\ power = "Sleeping" => ModeBits(config) = 0

\* C5: sleep followed by wake leaves the mode-on bits of CONFIG as they were
\* before the sleep.
C5_SleepWakeRestores ==
    (op = "wake" /\ prevOp = "sleep") => ModeBits(config) = ModeBits(prevPre)

\* C6: sleep on a device whose mode-on bits are clear, and wake on a device
\* whose mode-on bits are set, leave CONFIG as it was.
C6_Idempotent ==
    /\ (op = "sleep" /\ ModeBits(pre) = 0) => config = pre
    /\ (op = "wake" /\ ModeBits(pre) = TMP006_CFG_MODEON) => config = pre

\* C7: after every write of CONFIG (by begin, sleep or wake) the device holds
\* the config word the driver computed.
C7_BigEndianWrites ==
    (op \in {"begin", "sleep", "wake"} /\ written # <<>>) => config = written[1]

\* C10: sleep and wake leave the sample-rate bits, the data-ready-enable bit,
\* the data-ready flag and the reset bit of CONFIG as they were.
C10_OnlyModeBitsChange ==
    op \in {"sleep", "wake"} =>
        /\ RateBits(config) = RateBits(pre)
        /\ EnableBit(config) = EnableBit(pre)
        /\ ReadyBit(config) = ReadyBit(pre)
        /\ ResetBit(config) = ResetBit(pre)

\* The number the TAMB register holds, as 16-bit two's complement.
TambSigned == IF tamb < 32768 THEN tamb ELSE tamb - 65536

\* C8: readRawDieTemperature returns floor(r/4) for the signed TAMB value r,
\* sign kept; readDieTempC returns that quotient over 32 (0 for register 0,
\* 1/32 for register 4).
C8_DieTemperature ==
    LET r == TambSigned
    IN  /\ op = "readRawDieTemperature" =>
            /\ Len(value) = 1
            /\ 4 * value[1] <= r /\ r < 4 * value[1] + 4
            /\ value[1] < 0 <=> r < 0
        /\ op = "readDieTempC" =>
            /\ Len(value) = 2 /\ value[2] > 0
            /\ (32 * value[1]) % value[2] = 0
            /\ LET q == (32 * value[1]) \div value[2]
               IN  4 * q <= r /\ r < 4 * q + 4
            /\ tamb = 0 => value[1] = 0
            /\ tamb = 4 => 32 * value[1] = value[2]

C8_Witness ==
    op = "readDieTempC" /\ tamb = 65531 /\ value = <<-6250, 100000>>

====
